---- MODULE Spec2Model ----
(***************************************************************************)
(* Model of the server-side checkers session: the CheckersGame class       *)
(* (board, rules engine, turn order, new-game consensus) as it is driven   *)
(* by the socket handlers of SocketController.                             *)
(*                                                                         *)
(* Each method of the class is an operator from the current session to    *)
(* the session it leaves behind and the value it returns; each action      *)
(* applies one method.  A command is issued by a connection: join may be   *)
(* sent by any live connection, every other command reaches the session    *)
(* only from a connection that joined it (socket.roomCode is set by a      *)
(* successful join and removePlayer is only called on disconnect, so such  *)
(* a connection is always a key of players).  When the last player leaves, *)
(* the room is deleted and its session receives no further command.        *)
(* registered tells that the room is in the registry of the controller;    *)
(* age is the time since the room was created and sinceActivity the time   *)
(* since the last join or accepted move, both in hours.                    *)
(* games, sockets and creations are the registry of all rooms, with the    *)
(* session of each room reduced to its players and its new-game requests, *)
(* the sockets with their roomCode, and the number of rooms created.       *)
(* Socket ids are opaque and                                               *)
(* never used twice: the n-th connection that joins the room is named n,   *)
(* and connections counts the connections that joined so far.              *)
(***************************************************************************)
EXTENDS Integers, Sequences, FiniteSets, TLC

VARIABLES players, currentPlayer, gameState, winner, board, mustCapture,
          capturingPiece, newGameRequests, turnOrderSelector,
          waitingForTurnOrderSelection, connections, threw, movesLeft,
          registered, age, sinceActivity, games, sockets, creations

sessionVars == <<players, currentPlayer, gameState, winner, board, mustCapture,
                 capturingPiece, newGameRequests, turnOrderSelector,
                 waitingForTurnOrderSelection>>

vars == <<players, currentPlayer, gameState, winner, board, mustCapture,
          capturingPiece, newGameRequests, turnOrderSelector,
          waitingForTurnOrderSelection, connections, threw, movesLeft,
          registered, age, sinceActivity, games, sockets, creations>>

registryVars == <<games, sockets, creations>>

(***************************************************************************)
(* Bounds of the model and constants of the program                        *)
(***************************************************************************)
\* connections that ever join the room
MaxConn == 3
\* accepted moves explored in a game that starts from the initial board
MaxMoves == 1
\* accepted moves explored in a game taken up at a position of its middle
MaxPlies == 2
\* hours of clock explored
MaxClock == 2
\* room codes generateRoomCode draws from
MaxCodes == 2
\* rooms created
MaxCreations == 3
\* the board is 8 x 8
BoardSize == 8
\* cleanupOldRooms: maxAgeHours = 1
maxAgeHours == 1

Conn == 1..MaxConn
Coord == 0..(BoardSize - 1)
Cells == Coord \X Coord
Colors == {"red", "black"}
Choices == {"self", "opponent", "first"}

\* JavaScript null, for a cell, a connection id, a color and a coordinate pair
Null == [color |-> "none", king |-> FALSE]
\* JavaScript undefined, what board[row][col] gives for a col outside the row
Undefined == [color |-> "undefined", king |-> FALSE]
NoConn == 0
NoColor == "null"
NoCell == [row |-> -1, col |-> -1]

Piece(c, k) == [color |-> c, king |-> k]
Other(c) == IF c = "red" THEN "black" ELSE "red"
Abs(x) == IF x < 0 THEN -x ELSE x
Sign(x) == IF x < 0 THEN -1 ELSE IF x > 0 THEN 1 ELSE 0
InBounds(r, c) == r >= 0 /\ r < BoardSize /\ c >= 0 /\ c < BoardSize

(***************************************************************************)
(* players: a JavaScript object keyed by connection id; its keys keep      *)
(* insertion order, and assigning to an existing key keeps its place.      *)
(***************************************************************************)
PlayerIds == {players[i].id : i \in 1..Len(players)}
PlayerCount == Len(players)
IndexOf(ps, p) == CHOOSE i \in 1..Len(ps) : ps[i].id = p
ColorOf(p) == players[IndexOf(players, p)].color
HasColor(ps, c) == \E i \in 1..Len(ps) : ps[i].color = c
\* Object.entries(players).find(([id, player]) => player.color === 'red')[0]
FindColor(ps, c) == ps[CHOOSE i \in 1..Len(ps) :
                          /\ ps[i].color = c
                          /\ \A j \in 1..(i - 1) : ps[j].color # c].id
PutPlayer(ps, p, c) ==
    IF \E i \in 1..Len(ps) : ps[i].id = p
    THEN [ps EXCEPT ![IndexOf(ps, p)] = [id |-> p, color |-> c]]
    ELSE Append(ps, [id |-> p, color |-> c])
DeletePlayer(ps, p) == SelectSeq(ps, LAMBDA e : e.id # p)

(***************************************************************************)
(* Board and rules engine                                                  *)
(***************************************************************************)
\* the starting position set on the light squares
initializeBoard_LightSquares ==
    [row \in Coord |-> [col \in Coord |->
        IF (row + col) % 2 = 0 /\ row < 3 THEN Piece("red", FALSE)
        ELSE IF (row + col) % 2 = 0 /\ row >= 5 THEN Piece("black", FALSE)
        ELSE Null]]

initializeBoard ==
    [row \in Coord |-> [col \in Coord |->
        IF (row + col) % 2 = 1 /\ row < 3 THEN Piece("red", FALSE)
        ELSE IF (row + col) % 2 = 1 /\ row >= 5 THEN Piece("black", FALSE)
        ELSE Null]]

\* every piece looking along the four diagonals
Directions_AllFour(piece) == {<<-1, -1>>, <<-1, 1>>, <<1, -1>>, <<1, 1>>}

Directions(piece) ==
    IF piece.king THEN {<<-1, -1>>, <<-1, 1>>, <<1, -1>>, <<1, 1>>}
    ELSE IF piece.color = "red" THEN {<<1, -1>>, <<1, 1>>}
    ELSE {<<-1, -1>>, <<-1, 1>>}

getPieceCaptues(b, row, col) ==
    LET piece == b[row][col]
    IN {[from |-> <<row, col>>,
         to |-> <<row + 2 * d[1], col + 2 * d[2]>>,
         captured |-> <<row + d[1], col + d[2]>>] :
          d \in {e \in Directions(piece) :
                   /\ InBounds(row + 2 * e[1], col + 2 * e[2])
                   /\ b[row + e[1]][col + e[2]] # Null
                   /\ b[row + e[1]][col + e[2]].color # piece.color
                   /\ b[row + 2 * e[1]][col + 2 * e[2]] = Null}}

PiecesOf(b, color) == {cell \in Cells : b[cell[1]][cell[2]] # Null
                                        /\ b[cell[1]][cell[2]].color = color}

getAvailableCaptures(b, color) ==
    UNION {getPieceCaptues(b, cell[1], cell[2]) : cell \in PiecesOf(b, color)}

countPieces(b, color) == Cardinality(PiecesOf(b, color))

getValidMovesForPiece(b, row, col) ==
    LET piece == b[row][col]
        steps == {[from |-> <<row, col>>, to |-> <<row + d[1], col + d[2]>>,
                   type |-> "move"] :
                    d \in {e \in Directions(piece) :
                             /\ InBounds(row + e[1], col + e[2])
                             /\ b[row + e[1]][col + e[2]] = Null}}
        jumps == {[from |-> <<row, col>>,
                   to |-> <<row + 2 * d[1], col + 2 * d[2]>>,
                   type |-> "capture"] :
                    d \in {e \in Directions(piece) :
                             /\ InBounds(row + 2 * e[1], col + 2 * e[2])
                             /\ b[row + e[1]][col + e[2]] # Null
                             /\ b[row + e[1]][col + e[2]].color # piece.color
                             /\ b[row + 2 * e[1]][col + 2 * e[2]] = Null}}
    IN IF piece = Null THEN {} ELSE steps \cup jumps

getValidMovesForPlayer(b, color) ==
    UNION {getValidMovesForPiece(b, cell[1], cell[2]) : cell \in PiecesOf(b, color)}

\* checkGameOver naming the color that ran out of pieces as the winner
checkGameOver_LoserWins(b, cp) ==
    IF countPieces(b, "red") = 0 THEN "red"
    ELSE IF countPieces(b, "black") = 0 THEN "black"
    ELSE IF getValidMovesForPlayer(b, cp) = {} THEN Other(cp)
    ELSE NoColor

\* checkGameOver that only counts pieces
checkGameOver_PiecesOnly(b, cp) ==
    IF countPieces(b, "red") = 0 THEN "black"
    ELSE IF countPieces(b, "black") = 0 THEN "red"
    ELSE NoColor

checkGameOver(b, cp) ==
    IF countPieces(b, "red") = 0 THEN "black"
    ELSE IF countPieces(b, "black") = 0 THEN "red"
    ELSE IF getValidMovesForPlayer(b, cp) = {} THEN Other(cp)
    ELSE NoColor

(***************************************************************************)
(* The fields of the session, and the value a method returns               *)
(***************************************************************************)
Now == [players |-> players, currentPlayer |-> currentPlayer,
        gameState |-> gameState, winner |-> winner, board |-> board,
        mustCapture |-> mustCapture, capturingPiece |-> capturingPiece,
        newGameRequests |-> newGameRequests,
        turnOrderSelector |-> turnOrderSelector,
        waitingForTurnOrderSelection |-> waitingForTurnOrderSelection]

\* the result objects of makeMove, selectTurnOrder and requestNewGame and the
\* boolean of addPlayer; threw: the method raised a TypeError instead
Result(ok, why) == [success |-> ok, reason |-> why, captured |-> FALSE,
                    promoted |-> FALSE, continueCapturing |-> FALSE,
                    threw |-> FALSE]
Threw == [Result(FALSE, "TypeError") EXCEPT !.threw = TRUE]
Outcome(after, res) == [session |-> after, result |-> res]

(***************************************************************************)
(* Move validation and execution                                           *)
(***************************************************************************)
\* this.board[row][col] for a row of the board
boardAt(row, col) == IF InBounds(row, col) THEN board[row][col] ELSE Undefined

\* isValidMove raises a TypeError: players[playerId] is undefined for a
\* connection that is not a player, and board[row] is undefined for a row
\* outside the board, first for the source and then for the destination
isValidMoveThrows(fromRow, fromCol, toRow, toCol, playerId) ==
    \/ playerId \notin PlayerIds
    \/ /\ ColorOf(playerId) = currentPlayer
       /\ \/ fromRow \notin Coord
          \/ /\ boardAt(fromRow, fromCol).color = currentPlayer
             /\ toRow \notin Coord

Rejected(why) == [valid |-> FALSE, reason |-> why, type |-> "none",
                  capturedRow |-> -1, capturedCol |-> -1]

\* both colors moving towards the higher rows
expectedDirection_RedForBoth(piece) == 1

\* a regular piece moves towards the far side only
expectedDirection(piece) == IF piece.color = "red" THEN 1 ELSE -1

\* the regular move without the check for available captures
regularMove_NoMandatoryCapture(piece, rowDiff) ==
    IF ~piece.king /\ rowDiff # expectedDirection(piece)
      THEN Rejected("Invalid move direction")
    ELSE [valid |-> TRUE, reason |-> "", type |-> "move",
          capturedRow |-> -1, capturedCol |-> -1]

\* isValidMove, "Regular move (one diagonal square)"
regularMove(piece, rowDiff) ==
    IF ~piece.king /\ rowDiff # expectedDirection(piece)
      THEN Rejected("Invalid move direction")
    ELSE IF getAvailableCaptures(board, currentPlayer) # {}
      THEN Rejected("Must capture when possible")
    ELSE [valid |-> TRUE, reason |-> "", type |-> "move",
          capturedRow |-> -1, capturedCol |-> -1]

\* the capture move comparing rowDiff itself, not its sign, with the direction
captureMove_UnsignedDirection(piece, fromRow, fromCol, rowDiff, toCol) ==
    LET middleRow == fromRow + Sign(rowDiff)
        middleCol == fromCol + Sign(toCol - fromCol)
        middlePiece == board[middleRow][middleCol]
    IN IF ~piece.king /\ rowDiff # expectedDirection(piece)
         THEN Rejected("Invalid capture direction")
       ELSE IF middlePiece = Null \/ middlePiece.color = currentPlayer
         THEN Rejected("No piece to capture")
       ELSE [valid |-> TRUE, reason |-> "", type |-> "capture",
             capturedRow |-> middleRow, capturedCol |-> middleCol]

\* isValidMove, "Capture move (two diagonal squares)"
captureMove(piece, fromRow, fromCol, rowDiff, toCol) ==
    LET middleRow == fromRow + Sign(rowDiff)
        middleCol == fromCol + Sign(toCol - fromCol)
        middlePiece == board[middleRow][middleCol]
    IN IF ~piece.king /\ Sign(rowDiff) # expectedDirection(piece)
         THEN Rejected("Invalid capture direction")
       ELSE IF middlePiece = Null \/ middlePiece.color = currentPlayer
         THEN Rejected("No piece to capture")
       ELSE [valid |-> TRUE, reason |-> "", type |-> "capture",
             capturedRow |-> middleRow, capturedCol |-> middleCol]

\* isValidMove without the check that a capture sequence is continued by the
\* same piece
isValidMove_AnyPieceContinues(fromRow, fromCol, toRow, toCol, playerId) ==
    LET piece == boardAt(fromRow, fromCol)
        rowDiff == toRow - fromRow
        colDiff == Abs(toCol - fromCol)
    IN IF ColorOf(playerId) # currentPlayer
         THEN Rejected("Not your turn")
       ELSE IF piece = Null \/ piece.color # currentPlayer
         THEN Rejected("Invalid source position")
       ELSE IF boardAt(toRow, toCol) # Null
         THEN Rejected("Destination not empty")
       ELSE IF (toRow + toCol) % 2 = 0
         THEN Rejected("Can only move to dark squares")
       ELSE IF Abs(rowDiff) = 1 /\ colDiff = 1
         THEN regularMove(piece, rowDiff)
       ELSE IF Abs(rowDiff) = 2 /\ colDiff = 2
         THEN captureMove(piece, fromRow, fromCol, rowDiff, toCol)
       ELSE Rejected("Invalid move distance")

isValidMove(fromRow, fromCol, toRow, toCol, playerId) ==
    LET piece == boardAt(fromRow, fromCol)
        rowDiff == toRow - fromRow
        colDiff == Abs(toCol - fromCol)
    IN IF ColorOf(playerId) # currentPlayer
         THEN Rejected("Not your turn")
       ELSE IF piece = Null \/ piece.color # currentPlayer
         THEN Rejected("Invalid source position")
       ELSE IF boardAt(toRow, toCol) # Null
         THEN Rejected("Destination not empty")
       ELSE IF (toRow + toCol) % 2 = 0
         THEN Rejected("Can only move to dark squares")
       ELSE IF mustCapture /\ capturingPiece # NoCell
                /\ (fromRow # capturingPiece.row \/ fromCol # capturingPiece.col)
         THEN Rejected("Must continue capturing with the same piece")
       ELSE IF Abs(rowDiff) = 1 /\ colDiff = 1
         THEN regularMove(piece, rowDiff)
       ELSE IF Abs(rowDiff) = 2 /\ colDiff = 2
         THEN captureMove(piece, fromRow, fromCol, rowDiff, toCol)
       ELSE Rejected("Invalid move distance")

\* no promotion at all
promotes_Never(piece, toRow) == FALSE

\* promotion that forgets the black side
promotes_RedOnly(piece, toRow) ==
    ~piece.king /\ piece.color = "red" /\ toRow = BoardSize - 1

\* makeMove, "Promote to king": a regular piece that reaches its farthest row
promotes(piece, toRow) ==
    /\ ~piece.king
    /\ \/ piece.color = "red" /\ toRow = BoardSize - 1
       \/ piece.color = "black" /\ toRow = 0

\* a capture sequence that goes on after every capture
keepsCapturing_AfterAnyCapture(isCapture, taken, toRow, toCol, promoted) ==
    isCapture /\ ~promoted

\* makeMove, continueCapturing: the piece that captured, as it stands on
\* taken before any promotion, has another capture, and was not promoted
keepsCapturing(isCapture, taken, toRow, toCol, promoted) ==
    /\ isCapture
    /\ getPieceCaptues(taken, toRow, toCol) # {}
    /\ ~promoted

\* makeMove that puts a regular piece on the destination
makeMove_UncrownsMover(fromRow, fromCol, toRow, toCol, playerId) ==
    LET validation == isValidMove(fromRow, fromCol, toRow, toCol, playerId)
        piece == board[fromRow][fromCol]
        moved == [[board EXCEPT ![toRow][toCol] = Piece(piece.color, FALSE)]
                         EXCEPT ![fromRow][fromCol] = Null]
        isCapture == validation.type = "capture"
        taken == IF isCapture
                 THEN [moved EXCEPT ![validation.capturedRow][validation.capturedCol] = Null]
                 ELSE moved
        promoted == promotes(piece, toRow)
        final == IF promoted THEN [taken EXCEPT ![toRow][toCol].king = TRUE]
                 ELSE taken
        continueCapturing == keepsCapturing(isCapture, taken, toRow, toCol, promoted)
        nextPlayer == IF continueCapturing THEN currentPlayer
                      ELSE Other(currentPlayer)
        won == checkGameOver(final, nextPlayer)
    IN IF isValidMoveThrows(fromRow, fromCol, toRow, toCol, playerId)
         THEN Outcome(Now, Threw)
       ELSE IF ~validation.valid
         THEN Outcome(Now, Result(FALSE, validation.reason))
       ELSE Outcome([Now EXCEPT
                       !.board = final,
                       !.currentPlayer = nextPlayer,
                       !.mustCapture = continueCapturing,
                       !.capturingPiece = IF continueCapturing
                                          THEN [row |-> toRow, col |-> toCol]
                                          ELSE NoCell,
                       !.gameState = IF won # NoColor THEN "finished" ELSE @,
                       !.winner = IF won # NoColor THEN won ELSE @],
                    [Result(TRUE, "") EXCEPT
                       !.captured = isCapture, !.promoted = promoted,
                       !.continueCapturing = continueCapturing])

\* makeMove that leaves the jumped piece on the board
makeMove_KeepsCaptured(fromRow, fromCol, toRow, toCol, playerId) ==
    LET validation == isValidMove(fromRow, fromCol, toRow, toCol, playerId)
        piece == board[fromRow][fromCol]
        moved == [[board EXCEPT ![toRow][toCol] = piece]
                         EXCEPT ![fromRow][fromCol] = Null]
        isCapture == validation.type = "capture"
        taken == moved
        promoted == promotes(piece, toRow)
        final == IF promoted THEN [taken EXCEPT ![toRow][toCol].king = TRUE]
                 ELSE taken
        continueCapturing == keepsCapturing(isCapture, taken, toRow, toCol, promoted)
        nextPlayer == IF continueCapturing THEN currentPlayer
                      ELSE Other(currentPlayer)
        won == checkGameOver(final, nextPlayer)
    IN IF isValidMoveThrows(fromRow, fromCol, toRow, toCol, playerId)
         THEN Outcome(Now, Threw)
       ELSE IF ~validation.valid
         THEN Outcome(Now, Result(FALSE, validation.reason))
       ELSE Outcome([Now EXCEPT
                       !.board = final,
                       !.currentPlayer = nextPlayer,
                       !.mustCapture = continueCapturing,
                       !.capturingPiece = IF continueCapturing
                                          THEN [row |-> toRow, col |-> toCol]
                                          ELSE NoCell,
                       !.gameState = IF won # NoColor THEN "finished" ELSE @,
                       !.winner = IF won # NoColor THEN won ELSE @],
                    [Result(TRUE, "") EXCEPT
                       !.captured = isCapture, !.promoted = promoted,
                       !.continueCapturing = continueCapturing])

makeMove(fromRow, fromCol, toRow, toCol, playerId) ==
    LET validation == isValidMove(fromRow, fromCol, toRow, toCol, playerId)
        piece == board[fromRow][fromCol]
        moved == [[board EXCEPT ![toRow][toCol] = piece]
                         EXCEPT ![fromRow][fromCol] = Null]
        isCapture == validation.type = "capture"
        taken == IF isCapture
                 THEN [moved EXCEPT ![validation.capturedRow][validation.capturedCol] = Null]
                 ELSE moved
        promoted == promotes(piece, toRow)
        final == IF promoted THEN [taken EXCEPT ![toRow][toCol].king = TRUE]
                 ELSE taken
        continueCapturing == keepsCapturing(isCapture, taken, toRow, toCol, promoted)
        nextPlayer == IF continueCapturing THEN currentPlayer
                      ELSE Other(currentPlayer)
        won == checkGameOver(final, nextPlayer)
    IN IF isValidMoveThrows(fromRow, fromCol, toRow, toCol, playerId)
         THEN Outcome(Now, Threw)
       ELSE IF ~validation.valid
         THEN Outcome(Now, Result(FALSE, validation.reason))
       ELSE Outcome([Now EXCEPT
                       !.board = final,
                       !.currentPlayer = nextPlayer,
                       !.mustCapture = continueCapturing,
                       !.capturingPiece = IF continueCapturing
                                          THEN [row |-> toRow, col |-> toCol]
                                          ELSE NoCell,
                       !.gameState = IF won # NoColor THEN "finished" ELSE @,
                       !.winner = IF won # NoColor THEN won ELSE @],
                    [Result(TRUE, "") EXCEPT
                       !.captured = isCapture, !.promoted = promoted,
                       !.continueCapturing = continueCapturing])

(***************************************************************************)
(* Players joining and leaving                                             *)
(***************************************************************************)
\* addPlayer that refuses the fourth player, not the third
addPlayer_ThreeSeats(playerId) ==
    LET color == IF PlayerCount = 0 THEN "red" ELSE "black"
        joined == PutPlayer(players, playerId, color)
        second == [Now EXCEPT !.players = joined,
                              !.gameState = "turn_selection",
                              !.waitingForTurnOrderSelection = TRUE]
    IN IF PlayerCount >= 3
         THEN Outcome(Now, Result(FALSE, "Room is full"))
       ELSE IF Len(joined) # 2
         THEN Outcome([Now EXCEPT !.players = joined], Result(TRUE, ""))
       ELSE IF ~HasColor(joined, "red")
         THEN Outcome(second, Threw)
       ELSE Outcome([second EXCEPT !.turnOrderSelector = FindColor(joined, "red")],
                    Result(TRUE, ""))

\* the name of the player plays no role and is left out
addPlayer(playerId) ==
    LET color == IF PlayerCount = 0 THEN "red" ELSE "black"
        joined == PutPlayer(players, playerId, color)
        second == [Now EXCEPT !.players = joined,
                              !.gameState = "turn_selection",
                              !.waitingForTurnOrderSelection = TRUE]
    IN IF PlayerCount >= 2
         THEN Outcome(Now, Result(FALSE, "Room is full"))
       ELSE IF Len(joined) # 2
         THEN Outcome([Now EXCEPT !.players = joined], Result(TRUE, ""))
       \* redPlayer[0] of an undefined redPlayer raises
       ELSE IF ~HasColor(joined, "red")
         THEN Outcome(second, Threw)
       ELSE Outcome([second EXCEPT !.turnOrderSelector = FindColor(joined, "red")],
                    Result(TRUE, ""))

\* removePlayer that ends the game in favour of the player who stays
removePlayer_Forfeit(playerId) ==
    LET left == DeletePlayer(players, playerId)
    IN Outcome([Now EXCEPT !.players = left,
                           !.newGameRequests = @ \ {playerId},
                           !.gameState = IF Len(left) <= 1 THEN "finished" ELSE @,
                           !.winner = IF Len(left) = 1 THEN left[1].color ELSE @],
               Result(TRUE, ""))

removePlayer(playerId) ==
    LET left == DeletePlayer(players, playerId)
    IN Outcome([Now EXCEPT !.players = left,
                           !.newGameRequests = @ \ {playerId},
                           !.gameState = IF Len(left) = 0 THEN "finished" ELSE @],
               Result(TRUE, ""))

(***************************************************************************)
(* Turn order selection                                                    *)
(***************************************************************************)
\* selectTurnOrder that does not compare the caller with turnOrderSelector
selectTurnOrder_AnyPlayer(playerId, choice) ==
    IF ~waitingForTurnOrderSelection
      THEN Outcome(Now, Result(FALSE, "Not authorized to select turn order"))
    ELSE IF choice \notin {"self", "opponent"}
      THEN Outcome(Now, Result(FALSE, "Invalid choice"))
    ELSE Outcome([Now EXCEPT
                    !.currentPlayer = IF choice = "self" THEN ColorOf(playerId)
                                      ELSE Other(ColorOf(playerId)),
                    !.gameState = "playing",
                    !.waitingForTurnOrderSelection = FALSE,
                    !.turnOrderSelector = NoConn],
                 Result(TRUE, ""))

\* selectTurnOrder that takes every choice but 'self' for 'opponent'
selectTurnOrder_ElseOpponent(playerId, choice) ==
    IF playerId # turnOrderSelector \/ ~waitingForTurnOrderSelection
      THEN Outcome(Now, Result(FALSE, "Not authorized to select turn order"))
    ELSE Outcome([Now EXCEPT
                    !.currentPlayer = IF choice = "self" THEN ColorOf(playerId)
                                      ELSE Other(ColorOf(playerId)),
                    !.gameState = "playing",
                    !.waitingForTurnOrderSelection = FALSE,
                    !.turnOrderSelector = NoConn],
                 Result(TRUE, ""))

\* selectTurnOrder that starts the game before it looks at the choice
selectTurnOrder_StartsBeforeChoice(playerId, choice) ==
    IF playerId # turnOrderSelector \/ ~waitingForTurnOrderSelection
      THEN Outcome(Now, Result(FALSE, "Not authorized to select turn order"))
    ELSE IF choice \notin {"self", "opponent"}
      THEN Outcome([Now EXCEPT !.gameState = "playing",
                               !.waitingForTurnOrderSelection = FALSE,
                               !.turnOrderSelector = NoConn],
                   Result(FALSE, "Invalid choice"))
    ELSE IF playerId \notin PlayerIds
      THEN Outcome(Now, Threw)
    ELSE Outcome([Now EXCEPT
                    !.currentPlayer = IF choice = "self" THEN ColorOf(playerId)
                                      ELSE Other(ColorOf(playerId)),
                    !.gameState = "playing",
                    !.waitingForTurnOrderSelection = FALSE,
                    !.turnOrderSelector = NoConn],
                 Result(TRUE, ""))

selectTurnOrder(playerId, choice) ==
    IF playerId # turnOrderSelector \/ ~waitingForTurnOrderSelection
      THEN Outcome(Now, Result(FALSE, "Not authorized to select turn order"))
    ELSE IF choice \notin {"self", "opponent"}
      THEN Outcome(Now, Result(FALSE, "Invalid choice"))
    \* selectorPlayer.color of an undefined selectorPlayer raises
    ELSE IF playerId \notin PlayerIds
      THEN Outcome(Now, Threw)
    ELSE Outcome([Now EXCEPT
                    !.currentPlayer = IF choice = "self" THEN ColorOf(playerId)
                                      ELSE Other(ColorOf(playerId)),
                    !.gameState = "playing",
                    !.waitingForTurnOrderSelection = FALSE,
                    !.turnOrderSelector = NoConn],
                 Result(TRUE, ""))

(***************************************************************************)
(* New game requests                                                       *)
(***************************************************************************)
\* resetGame that keeps the board of the game before
resetGame_KeepsBoard ==
    [Now EXCEPT
       !.currentPlayer = "red",
       !.winner = NoColor,
       !.mustCapture = FALSE,
       !.capturingPiece = NoCell,
       !.newGameRequests = {},
       !.gameState = IF PlayerCount = 2 THEN "turn_selection" ELSE "waiting",
       !.waitingForTurnOrderSelection = (PlayerCount = 2),
       !.turnOrderSelector = IF PlayerCount # 2 THEN NoConn
                             ELSE IF HasColor(players, "red")
                                  THEN FindColor(players, "red")
                                  ELSE players[1].id]

resetGame ==
    [Now EXCEPT
       !.currentPlayer = "red",
       !.winner = NoColor,
       !.board = initializeBoard,
       !.mustCapture = FALSE,
       !.capturingPiece = NoCell,
       !.newGameRequests = {},
       !.gameState = IF PlayerCount = 2 THEN "turn_selection" ELSE "waiting",
       !.waitingForTurnOrderSelection = (PlayerCount = 2),
       !.turnOrderSelector = IF PlayerCount # 2 THEN NoConn
                             ELSE IF HasColor(players, "red")
                                  THEN FindColor(players, "red")
                                  ELSE players[1].id]

\* requestNewGame that resets on the first request
requestNewGame_FirstRequest(playerId) ==
    LET requests == newGameRequests \cup {playerId}
    IN IF PlayerCount = 2 /\ Cardinality(requests) >= 1
         THEN Outcome(resetGame, Result(TRUE, "bothAgreed"))
       ELSE IF PlayerCount = 1
         THEN Outcome(resetGame, Result(TRUE, "single_player"))
       ELSE Outcome([Now EXCEPT !.newGameRequests = requests],
                    Result(FALSE, "waitingForOther"))

requestNewGame(playerId) ==
    LET requests == newGameRequests \cup {playerId}
    IN IF PlayerCount = 2 /\ Cardinality(requests) = 2
         THEN Outcome(resetGame, Result(TRUE, "bothAgreed"))
       ELSE IF PlayerCount = 1
         THEN Outcome(resetGame, Result(TRUE, "single_player"))
       ELSE Outcome([Now EXCEPT !.newGameRequests = requests],
                    Result(FALSE, "waitingForOther"))

\* cancelNewGameRequest that drops every pending request
cancelNewGameRequest_ClearsAll(playerId) ==
    Outcome([Now EXCEPT !.newGameRequests = {}], Result(TRUE, ""))

cancelNewGameRequest(playerId) ==
    Outcome([Now EXCEPT !.newGameRequests = @ \ {playerId}], Result(TRUE, ""))

(***************************************************************************)
(* The registry of the controller: games maps the code of every room to   *)
(* its session, of which the players and the new-game requests are kept;  *)
(* sockets holds, for every connection, whether it is connected and its    *)
(* roomCode.                                                               *)
(***************************************************************************)
RoomCodes == 1..MaxCodes
\* socket.roomCode of a socket that joined no room
NoRoom == 0

\* new CheckersGame(roomCode)
NewGame == [players |-> <<>>, newGameRequests |-> {}]

InitRegistry ==
    /\ games = <<>>
    /\ sockets = [conn \in Conn |-> [live |-> TRUE, roomCode |-> NoRoom]]
    /\ creations = 0

IdsOf(game) == {game.players[i].id : i \in 1..Len(game.players)}

\* the registry with the session of a room set or replaced
SetGame(code, game) ==
    [c \in DOMAIN games \cup {code} |-> IF c = code THEN game ELSE games[c]]

\* createRoom with the code generateRoomCode returned: games.set(roomCode, game)
createRoom(code) == SetGame(code, NewGame)

\* addPlayer on the session of a room
addPlayerIn(game, playerId) ==
    LET count == Len(game.players)
        color == IF count = 0 THEN "red" ELSE "black"
        joined == [game EXCEPT !.players = PutPlayer(@, playerId, color)]
    IN IF count >= 2
         THEN [game |-> game, success |-> FALSE, threw |-> FALSE]
       ELSE IF Len(joined.players) = 2 /\ ~HasColor(joined.players, "red")
         THEN [game |-> joined, success |-> FALSE, threw |-> TRUE]
       ELSE [game |-> joined, success |-> TRUE, threw |-> FALSE]

\* removePlayer on the session of a room
removePlayerIn(game, playerId) ==
    [game EXCEPT !.players = DeletePlayer(@, playerId),
                 !.newGameRequests = @ \ {playerId}]

\* requestNewGame on the session of a room; resetGame empties the requests
requestNewGameIn(game, playerId) ==
    LET requests == game.newGameRequests \cup {playerId}
    IN IF Len(game.players) = 2 /\ Cardinality(requests) = 2
         THEN [game EXCEPT !.newGameRequests = {}]
       ELSE IF Len(game.players) = 1
         THEN [game EXCEPT !.newGameRequests = {}]
       ELSE [game EXCEPT !.newGameRequests = requests]

\* cancelNewGameRequest on the session of a room
cancelNewGameRequestIn(game, playerId) ==
    [game EXCEPT !.newGameRequests = @ \ {playerId}]

\* handleDisconnect: removePlayer on the game of socket.roomCode, then
\* cleanupRoom, which deletes the room that has no player left
leaveRooms(conn) ==
    LET code == sockets[conn].roomCode
        left == removePlayerIn(games[code], conn)
    IN IF code \notin DOMAIN games THEN games
       ELSE IF Len(left.players) = 0
         THEN [c \in DOMAIN games \ {code} |-> games[c]]
       ELSE SetGame(code, left)

(***************************************************************************)
(* The socket handlers: what each sends after the method of the session    *)
(* returned.  toRoom is the sequence of events broadcast to the room,      *)
(* toSockets the set of <<connection, event>> sent to single connections.  *)
(* A handler whose method raised sends nothing.                            *)
(***************************************************************************)
Handled(out, toRoom, toSockets) ==
    [session |-> out.session, result |-> out.result,
     toRoom |-> IF out.result.threw THEN <<>> ELSE toRoom,
     toSockets |-> IF out.result.threw THEN {} ELSE toSockets]

\* the connected socket of the chooser of the turn order, if there is one
selectorSocket(after) ==
    IF after.turnOrderSelector \in {after.players[i].id : i \in 1..Len(after.players)}
    THEN {<<after.turnOrderSelector, "show-turn-order-selection">>} ELSE {}

handleJoinRoom(playerId) ==
    LET out == addPlayer(playerId)
        after == out.session
    IN IF ~out.result.success
         THEN Handled(out, <<>>, {<<playerId, "error">>})
       ELSE Handled(out, <<"player-joined">>,
                    {<<playerId, "game-state">>} \cup
                    (IF after.waitingForTurnOrderSelection
                     THEN (IF after.turnOrderSelector = playerId
                           THEN {<<playerId, "show-turn-order-selection">>}
                           ELSE selectorSocket(after))
                     ELSE {}))

handleMakeMove(playerId, fromRow, fromCol, toRow, toCol) ==
    LET out == makeMove(fromRow, fromCol, toRow, toCol, playerId)
    IN IF out.result.success
         THEN Handled(out, IF out.session.winner # NoColor
                           THEN <<"move-made", "game-over">>
                           ELSE <<"move-made">>, {})
       ELSE Handled(out, <<>>, {<<playerId, "move-error">>})

handleSelectTurnOrder(playerId, choice) ==
    LET out == selectTurnOrder(playerId, choice)
    IN IF out.result.success
         THEN Handled(out, <<"turn-order-selected">>, {})
       ELSE Handled(out, <<>>, {<<playerId, "move-error">>})

handleRequestNewGame(playerId) ==
    LET out == requestNewGame(playerId)
        after == out.session
    IN IF out.result.success /\ out.result.reason = "bothAgreed"
         THEN Handled(out, <<"game-reset">>,
                      IF after.waitingForTurnOrderSelection
                      THEN selectorSocket(after) ELSE {})
       ELSE IF out.result.success
         THEN Handled(out, <<"game-reset">>, {})
       ELSE Handled(out, <<"new-game-requested">>, {})

handleCancelNewGameRequest(playerId) ==
    Handled(cancelNewGameRequest(playerId), <<"new-game-request-cancelled">>, {})

\* the destinations sent as 'possible-moves' for the piece of a cell of the
\* board
handleGetPossibleMoves(playerId, row, col) ==
    LET piece == board[row][col]
        moves == getValidMovesForPiece(board, row, col)
        captures == {move \in moves : move.type = "capture"}
        finalMoves == IF captures # {} THEN captures ELSE moves
    IN IF piece = Null \/ playerId \notin PlayerIds
            \/ piece.color # ColorOf(playerId)
         THEN {}
       ELSE IF mustCapture /\ capturingPiece # NoCell
                /\ (capturingPiece.row # row \/ capturingPiece.col # col)
         THEN {}
       ELSE {move.to : move \in finalMoves}

handleDisconnect(playerId) ==
    Handled(removePlayer(playerId), <<"player-left">>, {})

(***************************************************************************)
(* Actions: one per command a connection can send to the session           *)
(***************************************************************************)
\* the session becomes what the method left, also when the method raised;
\* an uncaught TypeError in an event handler ends the server process
Apply(out) ==
    /\ players' = out.session.players
    /\ currentPlayer' = out.session.currentPlayer
    /\ gameState' = out.session.gameState
    /\ winner' = out.session.winner
    /\ board' = out.session.board
    /\ mustCapture' = out.session.mustCapture
    /\ capturingPiece' = out.session.capturingPiece
    /\ newGameRequests' = out.session.newGameRequests
    /\ turnOrderSelector' = out.session.turnOrderSelector
    /\ waitingForTurnOrderSelection' = out.session.waitingForTurnOrderSelection
    /\ threw' = out.result.threw

\* getGame finds no session: the room was deleted from the registry
roomRemoved == ~registered

\* the registry keeps the room: cleanupRoom that never deletes
cleanupRoom_KeepsRoom(after) == registered

\* cleanupRoom, called by handleDisconnect with the session removePlayer left:
\* the room without players is deleted; the value tells whether the registry
\* still holds the room
cleanupRoom(after) == IF Len(after.players) = 0 THEN FALSE ELSE registered

\* cleanupOldRooms: the room created more than maxAgeHours ago is deleted
cleanupOldRooms == IF age > maxAgeHours THEN FALSE ELSE registered

\* handleJoinRoom, for a connection that is in the room already or for the
\* next new connection
AddPlayer(playerId) ==
    /\ ~threw
    /\ ~roomRemoved
    /\ playerId \in PlayerIds \cup {connections + 1}
    /\ Apply(addPlayer(playerId))
    /\ connections' = IF playerId \notin PlayerIds /\ PlayerCount < 2
                      THEN connections + 1 ELSE connections
    /\ sinceActivity' = IF addPlayer(playerId).result.success THEN 0
                        ELSE sinceActivity
    /\ UNCHANGED <<movesLeft, registered, age, registryVars>>

\* handleDisconnect
RemovePlayer(playerId) ==
    /\ ~threw
    /\ playerId \in PlayerIds
    /\ ~roomRemoved
    /\ Apply(removePlayer(playerId))
    /\ registered' = cleanupRoom(removePlayer(playerId).session)
    /\ UNCHANGED <<connections, movesLeft, age, sinceActivity, registryVars>>

\* handleSelectTurnOrder
SelectTurnOrder(playerId, choice) ==
    /\ ~threw
    /\ playerId \in PlayerIds
    /\ ~roomRemoved
    /\ Apply(selectTurnOrder(playerId, choice))
    /\ UNCHANGED <<connections, movesLeft, registered, age, sinceActivity, registryVars>>

\* handleRequestNewGame
RequestNewGame(playerId) ==
    /\ ~threw
    /\ playerId \in PlayerIds
    /\ ~roomRemoved
    /\ Apply(requestNewGame(playerId))
    /\ movesLeft' = IF requestNewGame(playerId).result.success THEN MaxMoves
                    ELSE movesLeft
    /\ UNCHANGED <<connections, registered, age, sinceActivity, registryVars>>

\* handleCancelNewGameRequest
CancelNewGameRequest(playerId) ==
    /\ ~threw
    /\ playerId \in PlayerIds
    /\ ~roomRemoved
    /\ Apply(cancelNewGameRequest(playerId))
    /\ UNCHANGED <<connections, movesLeft, registered, age, sinceActivity, registryVars>>

\* handleMakeMove
MakeMove(playerId, from, to) ==
    /\ ~threw
    /\ playerId \in PlayerIds
    /\ ~roomRemoved
    /\ movesLeft > 0
    /\ LET out == makeMove(from[1], from[2], to[1], to[2], playerId)
       IN /\ Apply(out)
          /\ movesLeft' = IF out.result.success THEN movesLeft - 1 ELSE movesLeft
          /\ sinceActivity' = IF out.result.success THEN 0 ELSE sinceActivity
    /\ UNCHANGED <<connections, registered, age, registryVars>>

(***************************************************************************)
(* Moves a connection sends.  A move is accepted only from a piece of the  *)
(* color to move, to a cell one or two steps away on a diagonal; every     *)
(* other request is answered with a rejection and leaves the session as it *)
(* is.  The sources drawn are the cells of the color to move, one cell     *)
(* that never holds a piece and one cell below the last row of the board;  *)
(* the destinations are the cells of the board at MoveOffsets.             *)
(***************************************************************************)
MoveOffsets == {<<-1, -1>>, <<-1, 1>>, <<1, -1>>, <<1, 1>>,
                <<-2, -2>>, <<-2, 2>>, <<2, -2>>, <<2, 2>>,
                <<0, 1>>, <<0, 2>>}
MoveTargets(from) ==
    {to \in {<<from[1] + d[1], from[2] + d[2]>> : d \in MoveOffsets} :
       InBounds(to[1], to[2])}
MoveInputs ==
    IF movesLeft = 0 THEN {}
    ELSE UNION {{<<from, to>> : to \in MoveTargets(from)} :
                  from \in PiecesOf(board, currentPlayer)
                             \cup {<<0, 0>>, <<BoardSize, 1>>}}

(***************************************************************************)
(* The session from its construction                                       *)
(***************************************************************************)
Init ==
    /\ players = <<>>
    /\ currentPlayer = "red"
    /\ gameState = "waiting"
    /\ winner = NoColor
    /\ board = initializeBoard
    /\ mustCapture = FALSE
    /\ capturingPiece = NoCell
    /\ newGameRequests = {}
    /\ turnOrderSelector = NoConn
    /\ waitingForTurnOrderSelection = FALSE
    /\ connections = 0
    /\ threw = FALSE
    /\ movesLeft = MaxMoves
    /\ registered = TRUE
    /\ age = 0
    /\ sinceActivity = 0
    /\ InitRegistry

Next ==
    \/ \E playerId \in Conn : AddPlayer(playerId)
    \/ \E playerId \in Conn : RemovePlayer(playerId)
    \/ \E playerId \in Conn, choice \in Choices : SelectTurnOrder(playerId, choice)
    \/ \E playerId \in Conn : RequestNewGame(playerId)
    \/ \E playerId \in Conn : CancelNewGameRequest(playerId)
    \/ \E playerId \in PlayerIds, move \in MoveInputs :
          MakeMove(playerId, move[1], move[2])

Spec == Init /\ [][Next]_vars

(***************************************************************************)
(* The session in the middle of a game.  Two connections joined, the turn  *)
(* order was chosen and moves were played up to a position with few pieces *)
(* left; no capture is in progress and the game is not over.  Each         *)
(* position is a legal checkers position: pieces on dark cells, no regular *)
(* piece on its farthest row.                                              *)
(***************************************************************************)
Place(pieces) ==
    [row \in Coord |-> [col \in Coord |->
        IF \E q \in pieces : q[1] = row /\ q[2] = col
        THEN LET q == CHOOSE q \in pieces : q[1] = row /\ q[2] = col
             IN Piece(q[3], q[4])
        ELSE Null]]

\* a red piece with a double jump, and a second red piece with a jump of its own
Jumps == {<<2, 1, "red", FALSE>>, <<3, 2, "black", FALSE>>, <<5, 4, "black", FALSE>>,
          <<2, 5, "red", FALSE>>, <<3, 6, "black", FALSE>>}
\* a black piece with a double jump
BlackJumps == {<<5, 6, "black", FALSE>>, <<4, 5, "red", FALSE>>, <<2, 3, "red", FALSE>>}
\* a red piece that jumps onto row 7, next to a second black piece
Crowning == {<<5, 2, "red", FALSE>>, <<6, 3, "black", FALSE>>, <<6, 5, "black", FALSE>>}
\* a black piece that jumps onto row 0, next to a second red piece
BlackCrowning == {<<2, 5, "black", FALSE>>, <<1, 4, "red", FALSE>>, <<1, 2, "red", FALSE>>}
\* one piece each, face to face
LastPiece == {<<3, 2, "red", FALSE>>, <<4, 3, "black", FALSE>>}
\* a black piece in the corner that a red king can block
Corner == {<<1, 2, "red", TRUE>>, <<1, 0, "black", FALSE>>}
\* a red king with a double jump towards row 0
KingJumps == {<<5, 4, "red", TRUE>>, <<4, 3, "black", FALSE>>, <<2, 1, "black", TRUE>>}

Positions == {Jumps, BlackJumps, Crowning, BlackCrowning, LastPiece, Corner,
              KingJumps}

InitPlay ==
    /\ players = <<[id |-> 1, color |-> "red"], [id |-> 2, color |-> "black"]>>
    /\ gameState = "playing"
    /\ winner = NoColor
    /\ \E pieces \in Positions : board = Place(pieces)
    /\ currentPlayer \in Colors
    /\ checkGameOver(board, currentPlayer) = NoColor
    /\ mustCapture = FALSE
    /\ capturingPiece = NoCell
    /\ newGameRequests = {}
    /\ turnOrderSelector = NoConn
    /\ waitingForTurnOrderSelection = FALSE
    /\ connections = 2
    /\ threw = FALSE
    /\ movesLeft = MaxPlies
    /\ registered = TRUE
    /\ age = 0
    /\ sinceActivity = 0
    /\ InitRegistry

SpecPlay == InitPlay /\ [][Next]_vars

(***************************************************************************)
(* The session with time passing.  The room is created by createRoom at    *)
(* age 0; every hour the server runs the sweep of old rooms.               *)
(***************************************************************************)
\* an hour passes
Tick ==
    /\ ~threw
    /\ ~roomRemoved
    /\ age < MaxClock
    /\ age' = age + 1
    /\ sinceActivity' = sinceActivity + 1
    /\ UNCHANGED <<sessionVars, connections, threw, movesLeft, registered, registryVars>>

\* the periodic sweep, cleanupOldRooms
Sweep ==
    /\ ~threw
    /\ ~roomRemoved
    /\ registered' = cleanupOldRooms
    /\ UNCHANGED <<sessionVars, connections, threw, movesLeft, age, sinceActivity, registryVars>>

NextSweep == Next \/ Tick \/ Sweep

SpecSweep == Init /\ [][NextSweep]_vars

(***************************************************************************)
(* The registry with several rooms.  The sockets send create, join,        *)
(* new-game and cancel requests and disconnect; the TypeError of addPlayer *)
(* ends the server as it does for one room.                                *)
(***************************************************************************)
roomVars == <<sessionVars, connections, movesLeft, registered, age, sinceActivity>>

\* POST /api/create-room: generateRoomCode returns any of the codes
CreateRoom(code) ==
    /\ ~threw
    /\ creations < MaxCreations
    /\ games' = createRoom(code)
    /\ creations' = creations + 1
    /\ UNCHANGED <<roomVars, threw, sockets>>

JoinRoom(conn, code) ==
    /\ ~threw
    /\ sockets[conn].live
    /\ code \in DOMAIN games
    /\ LET out == addPlayerIn(games[code], conn)
       IN /\ games' = SetGame(code, out.game)
          /\ threw' = out.threw
          /\ sockets' = IF out.success
                        THEN [sockets EXCEPT ![conn].roomCode = code]
                        ELSE sockets
    /\ UNCHANGED <<roomVars, creations>>

RoomRequestNewGame(conn) ==
    /\ ~threw
    /\ sockets[conn].live
    /\ sockets[conn].roomCode \in DOMAIN games
    /\ games' = SetGame(sockets[conn].roomCode,
                        requestNewGameIn(games[sockets[conn].roomCode], conn))
    /\ UNCHANGED <<roomVars, threw, sockets, creations>>

RoomCancelNewGameRequest(conn) ==
    /\ ~threw
    /\ sockets[conn].live
    /\ sockets[conn].roomCode \in DOMAIN games
    /\ games' = SetGame(sockets[conn].roomCode,
                        cancelNewGameRequestIn(games[sockets[conn].roomCode], conn))
    /\ UNCHANGED <<roomVars, threw, sockets, creations>>

Disconnect(conn) ==
    /\ ~threw
    /\ sockets[conn].live
    /\ games' = leaveRooms(conn)
    /\ sockets' = [sockets EXCEPT ![conn].live = FALSE]
    /\ UNCHANGED <<roomVars, threw, creations>>

NextRooms ==
    \/ \E code \in RoomCodes : CreateRoom(code)
    \/ \E conn \in Conn, code \in RoomCodes : JoinRoom(conn, code)
    \/ \E conn \in Conn : RoomRequestNewGame(conn)
    \/ \E conn \in Conn : RoomCancelNewGameRequest(conn)
    \/ \E conn \in Conn : Disconnect(conn)

SpecRooms == Init /\ [][NextRooms]_vars

(***************************************************************************)
(* Properties.  A request is judged by what makeMove, selectTurnOrder or   *)
(* requestNewGame answers in the state it arrives in, for every connection *)
(* that can send it and every cell it can name.                            *)
(***************************************************************************)
At(b, cell) == b[cell[1]][cell[2]]
Move(playerId, from, to) == makeMove(from[1], from[2], to[1], to[2], playerId)
\* the connections playing the color to move
MoverIds == {p \in PlayerIds : ColorOf(p) = currentPlayer}
OwnPieces == PiecesOf(board, currentPlayer)
Diagonal(from, n) ==
    {to \in {<<from[1] + n * d[1], from[2] + n * d[2]>> :
               d \in {<<-1, -1>>, <<-1, 1>>, <<1, -1>>, <<1, 1>>}} :
       InBounds(to[1], to[2])}
StepTargets(from) == Diagonal(from, 1)
JumpTargets(from) == Diagonal(from, 2)
\* a capture continuation is pending, with the piece at Bound
Pending == mustCapture /\ capturingPiece # NoCell
Bound == <<capturingPiece.row, capturingPiece.col>>
FarRow(color) == IF color = "red" THEN BoardSize - 1 ELSE 0
\* a step the earlier checks of isValidMove let through
PlayableStep(from, to) ==
    /\ At(board, to) = Null
    /\ Pending => from = Bound
    /\ At(board, from).king
         \/ to[1] - from[1] = (IF At(board, from).color = "red" THEN 1 ELSE -1)

\* C1 as stated: when the color to move has a capture available, every
\* single-step move it attempts is rejected with 'Must capture when possible'
\* and the board is not changed.
C1_EveryStepMustCapture ==
    getAvailableCaptures(board, currentPlayer) # {} =>
      \A p \in MoverIds, from \in OwnPieces : \A to \in StepTargets(from) :
         /\ ~Move(p, from, to).result.success
         /\ Move(p, from, to).result.reason = "Must capture when possible"
         /\ Move(p, from, to).session.board = board

\* C1 amended: when the color to move has a capture available, every
\* single-step move it attempts is rejected and the session is not changed;
\* the reason is 'Must capture when possible' for a step that is otherwise
\* playable (empty destination, allowed direction, the bound piece if a
\* continuation is pending).
C1_MandatoryCapture ==
    getAvailableCaptures(board, currentPlayer) # {} =>
      \A p \in MoverIds, from \in OwnPieces : \A to \in StepTargets(from) :
         /\ ~Move(p, from, to).result.success
         /\ Move(p, from, to).session = Now
         /\ PlayableStep(from, to) =>
              Move(p, from, to).result.reason = "Must capture when possible"

\* after a move a capture is available, a playable step is refused for it and
\* so is a step that is not playable
C1_Witness ==
    /\ movesLeft < MaxPlies
    /\ getAvailableCaptures(board, currentPlayer) # {}
    /\ \E p \in MoverIds, from \in OwnPieces : \E to \in StepTargets(from) :
         /\ PlayableStep(from, to)
         /\ Move(p, from, to).result.reason = "Must capture when possible"
    /\ \E p \in MoverIds, from \in OwnPieces : \E to \in StepTargets(from) :
         /\ ~PlayableStep(from, to)
         /\ ~Move(p, from, to).result.success

\* C2 as stated: every capture attempt of the color to move that matches a
\* capture returned by getAvailableCaptures is accepted.
C2_EveryAvailableCaptureAccepted ==
    \A p \in MoverIds, c \in getAvailableCaptures(board, currentPlayer) :
       Move(p, c.from, c.to).result.success

\* C2 amended: such an attempt is accepted and removes the captured piece,
\* unless a capture continuation is pending for another cell; then it is
\* rejected with 'Must continue capturing with the same piece'.
C2_AvailableCaptureAccepted ==
    \A p \in MoverIds, c \in getAvailableCaptures(board, currentPlayer) :
       IF Pending /\ c.from # Bound
       THEN /\ ~Move(p, c.from, c.to).result.success
            /\ Move(p, c.from, c.to).result.reason =
                 "Must continue capturing with the same piece"
       ELSE /\ Move(p, c.from, c.to).result.success
            /\ Move(p, c.from, c.to).result.captured
            /\ At(Move(p, c.from, c.to).session.board, c.captured) = Null
            /\ At(Move(p, c.from, c.to).session.board, c.to) # Null

\* a continuation is pending, the bound piece has a capture and so has
\* another piece of the same color
C2_Witness ==
    /\ Pending
    /\ MoverIds # {}
    /\ \E c \in getAvailableCaptures(board, currentPlayer) : c.from = Bound
    /\ \E c \in getAvailableCaptures(board, currentPlayer) : c.from # Bound

\* the moved piece was promoted by the move
Crowned(from, after, to) == ~At(board, from).king /\ At(after.board, to).king
HandsOver(after) ==
    /\ ~after.mustCapture
    /\ after.capturingPiece = NoCell
    /\ after.currentPlayer = Other(currentPlayer)
KeepsTurn(after, to) ==
    /\ after.mustCapture
    /\ after.capturingPiece = [row |-> to[1], col |-> to[2]]
    /\ after.currentPlayer = currentPlayer

\* C3 as stated: after an accepted capture whose piece has a further capture
\* from its landing cell the obligation is set to that cell and the turn
\* stays; after every other accepted move it is cleared and the turn flips.
C3_TurnFollowsFurtherCapture ==
    \A p \in MoverIds, from \in OwnPieces :
      \A to \in StepTargets(from) \cup JumpTargets(from) :
        LET out == Move(p, from, to)
        IN out.result.success =>
             IF out.result.captured
                /\ getPieceCaptues(out.session.board, to[1], to[2]) # {}
             THEN KeepsTurn(out.session, to)
             ELSE HandsOver(out.session)

\* C3 amended: the turn stays only after a capture that did not promote the
\* piece; a capture that promotes it hands the turn over like every other
\* move, whatever capture the new king has.
C3_TurnHandOver ==
    \A p \in MoverIds, from \in OwnPieces :
      \A to \in StepTargets(from) \cup JumpTargets(from) :
        LET out == Move(p, from, to)
        IN out.result.success =>
             IF out.result.captured
                /\ ~Crowned(from, out.session, to)
                /\ getPieceCaptues(out.session.board, to[1], to[2]) # {}
             THEN KeepsTurn(out.session, to)
             ELSE HandsOver(out.session)

\* the bound piece has one capture left, which ends the sequence
C3_Witness ==
    /\ Pending
    /\ \E p \in MoverIds, c \in getPieceCaptues(board, Bound[1], Bound[2]) :
         /\ Move(p, c.from, c.to).result.success
         /\ Move(p, c.from, c.to).session.currentPlayer = Other(currentPlayer)
         /\ ~Move(p, c.from, c.to).session.mustCapture

\* C4 as stated: while a continuation is pending every request from another
\* own piece is rejected with 'Must continue capturing with the same piece',
\* and only captures by the bound piece are accepted.
C4_OtherPieceMustContinue ==
    Pending =>
      /\ \A p \in MoverIds, from \in OwnPieces \ {Bound}, to \in Cells :
           /\ ~Move(p, from, to).result.success
           /\ Move(p, from, to).result.reason =
                "Must continue capturing with the same piece"
      /\ \A p \in PlayerIds, from \in Cells, to \in Cells :
           Move(p, from, to).result.success =>
             from = Bound /\ Move(p, from, to).result.captured

\* C4 amended: such a request is always rejected; the reason is 'Must
\* continue capturing with the same piece' when the destination is an empty
\* dark cell, and the reason of the destination check otherwise.
C4_MultiJumpBinding ==
    Pending =>
      /\ \A p \in MoverIds, from \in OwnPieces \ {Bound}, to \in Cells :
           /\ ~Move(p, from, to).result.success
           /\ Move(p, from, to).session = Now
           /\ Move(p, from, to).result.reason =
                (IF At(board, to) # Null THEN "Destination not empty"
                 ELSE IF (to[1] + to[2]) % 2 = 0 THEN "Can only move to dark squares"
                 ELSE "Must continue capturing with the same piece")
      /\ \A p \in PlayerIds, from \in Cells, to \in Cells :
           Move(p, from, to).result.success =>
             from = Bound /\ Move(p, from, to).result.captured

\* a continuation is pending and the color to move has a second piece
C4_Witness ==
    /\ Pending
    /\ MoverIds # {}
    /\ OwnPieces \ {Bound} # {}
    /\ At(board, Bound).color = currentPlayer

\* C5: an accepted move that lands a regular piece on its farthest row makes
\* it a king, leaves no capture obligation and passes the turn, whatever
\* capture the new king has from the landing cell.
C5_PromotionEndsTurn ==
    \A p \in MoverIds, from \in OwnPieces :
      \A to \in StepTargets(from) \cup JumpTargets(from) :
        LET out == Move(p, from, to)
        IN /\ out.result.success
           /\ ~At(board, from).king
           /\ to[1] = FarRow(currentPlayer)
           => /\ At(out.session.board, to) = Piece(currentPlayer, TRUE)
              /\ out.result.promoted
              /\ HandsOver(out.session)

\* a piece was just crowned by a capture, its color is not to move, and as a
\* king it has a capture from the landing cell
C5_Witness ==
    /\ movesLeft = MaxPlies - 1
    /\ ~mustCapture
    /\ \E cell \in PiecesOf(board, Other(currentPlayer)) :
         /\ cell[1] = FarRow(Other(currentPlayer))
         /\ At(board, cell).king
         /\ getPieceCaptues(board, cell[1], cell[2]) # {}
         /\ countPieces(board, currentPlayer) = 1

\* C6: the accepted capture that removes the last piece of a color finishes
\* the game, in the same call, with the capturing color as winner.
C6_WinByAttrition ==
    \A p \in MoverIds, from \in OwnPieces : \A to \in JumpTargets(from) :
      LET out == Move(p, from, to)
      IN /\ out.result.success
         /\ countPieces(out.session.board, Other(currentPlayer)) = 0
         => /\ out.result.captured
            /\ out.session.gameState = "finished"
            /\ out.session.winner = currentPlayer

\* the game is finished, won by a color whose opponent has no piece left
C6_Witness ==
    /\ gameState = "finished"
    /\ winner \in Colors
    /\ countPieces(board, Other(winner)) = 0
    /\ countPieces(board, winner) > 0

\* some piece of the color has an empty cell next to it in a direction it moves
HasStep(b, color) ==
    \E cell \in PiecesOf(b, color) :
      \E d \in Directions(At(b, cell)) :
        /\ InBounds(cell[1] + d[1], cell[2] + d[2])
        /\ b[cell[1] + d[1]][cell[2] + d[2]] = Null

\* C7: if after an accepted move the color to move has pieces but neither a
\* step nor a capture, the game is finished and the other color has won; a
\* move that finishes the game always names a winner.
C7_WinByStalemate ==
    \A p \in MoverIds, from \in OwnPieces :
      \A to \in StepTargets(from) \cup JumpTargets(from) :
        LET out == Move(p, from, to)
            toMove == out.session.currentPlayer
        IN out.result.success =>
             /\ /\ countPieces(out.session.board, toMove) > 0
                /\ ~HasStep(out.session.board, toMove)
                /\ getAvailableCaptures(out.session.board, toMove) = {}
                => /\ out.session.gameState = "finished"
                   /\ out.session.winner = Other(toMove)
             /\ out.session.gameState = "finished" /\ gameState # "finished"
                => out.session.winner \in Colors

\* the game is finished, and the loser still has a piece, which cannot move
C7_Witness ==
    /\ gameState = "finished"
    /\ winner \in Colors
    /\ currentPlayer = Other(winner)
    /\ countPieces(board, currentPlayer) > 0
    /\ ~HasStep(board, currentPlayer)
    /\ getAvailableCaptures(board, currentPlayer) = {}

\* C8: selectTurnOrder by a connection that is not the designated chooser, or
\* while no choice is pending, is rejected with 'Not authorized to select turn
\* order' and changes no field of the session.
C8_TurnOrderAuthority ==
    \A p \in PlayerIds, choice \in Choices :
      p # turnOrderSelector \/ ~waitingForTurnOrderSelection =>
        /\ ~selectTurnOrder(p, choice).result.success
        /\ selectTurnOrder(p, choice).result.reason =
             "Not authorized to select turn order"
        /\ selectTurnOrder(p, choice).session = Now

\* a choice is pending and the room holds the chooser and another player
C8_Witness ==
    /\ waitingForTurnOrderSelection
    /\ turnOrderSelector \in PlayerIds
    /\ \E p \in PlayerIds :
         /\ p # turnOrderSelector
         /\ ~selectTurnOrder(p, "self").result.success

Started(color) ==
    [Now EXCEPT !.currentPlayer = color, !.gameState = "playing",
                !.waitingForTurnOrderSelection = FALSE,
                !.turnOrderSelector = NoConn]

C10_NewGameUnanimity ==
    \A p \in PlayerIds :
      LET out == requestNewGame(p)
      IN /\ PlayerCount = 2 =>
              /\ out.result.success <=> PlayerIds \subseteq newGameRequests \cup {p}
              /\ newGameRequests \subseteq {p} => ~out.result.success
              /\ ~out.result.success =>
                   /\ out.session.board = board
                   /\ out.session.currentPlayer = currentPlayer
                   /\ out.session.winner = winner
                   /\ out.session.gameState = gameState
                   /\ out.session.newGameRequests = newGameRequests \cup {p}
              /\ out.result.success => out.session = resetGame
         /\ PlayerCount = 1 =>
              /\ out.result.success
              /\ out.session = resetGame

\* one of two players has asked for a new game, and the game played on
C10_Witness ==
    /\ PlayerCount = 2
    /\ Cardinality(newGameRequests) = 1
    /\ newGameRequests \subseteq PlayerIds
    /\ board # initializeBoard
    /\ currentPlayer = "black"

\* C11: cancelNewGameRequest removes the requester from the pending requests
\* and changes no other field of the session; after a cancel by one of two
\* players, a request that leaves a single side asking (the other player's, or
\* the same player's when nobody else asked) is not approved and resets nothing.
C11_CancelFrame ==
    [][\A p \in PlayerIds :
         /\ cancelNewGameRequest(p).session =
              [Now EXCEPT !.newGameRequests = newGameRequests \ {p}]
         /\ (/\ PlayerCount = 2
             /\ p \in newGameRequests
             /\ Now' = cancelNewGameRequest(p).session)
            => \A q \in PlayerIds :
                 (q # p \/ newGameRequests' = {}) =>
                   /\ ~(requestNewGame(q).result.success)'
                   /\ (requestNewGame(q).session)' =
                        [Now' EXCEPT !.newGameRequests = newGameRequests' \cup {q}]
      ]_vars

\* a game is being played, one of two players has a request pending, and its
\* cancel empties the pending requests
C11_Witness ==
    /\ PlayerCount = 2
    /\ gameState = "playing"
    /\ board # initializeBoard
    /\ \E p \in PlayerIds :
         /\ newGameRequests = {p}
         /\ cancelNewGameRequest(p).session.newGameRequests = {}

\* the board a game starts from, described cell by cell
IsInitialBoard(b) ==
    /\ countPieces(b, "red") = 12
    /\ countPieces(b, "black") = 12
    /\ \A cell \in Cells :
         At(b, cell) # Null =>
           /\ ~At(b, cell).king
           /\ (cell[1] + cell[2]) % 2 = 1
           /\ At(b, cell).color = "red" => cell[1] <= 2
           /\ At(b, cell).color = "black" => cell[1] >= 5
    /\ \A cell \in Cells : cell[1] \in {3, 4} => At(b, cell) = Null

\* C12: an approved new-game request leaves, from any phase, the initial
\* board, no winner, no capture obligation, no pending request, the players
\* as they were, and phase 'turn_selection' with two players present and
\* 'waiting' with one.
C12_ResetBoard ==
    \A p \in PlayerIds :
      LET out == requestNewGame(p)
      IN out.result.success =>
           /\ IsInitialBoard(out.session.board)
           /\ out.session.winner = NoColor
           /\ ~out.session.mustCapture
           /\ out.session.capturingPiece = NoCell
           /\ out.session.newGameRequests = {}
           /\ out.session.players = players
           /\ out.session.gameState =
                (IF PlayerCount = 2 THEN "turn_selection" ELSE "waiting")

\* a game was won on the board, both players are present and the request of
\* one of them is approved
C12_Witness ==
    /\ gameState = "finished"
    /\ winner \in Colors
    /\ ~IsInitialBoard(board)
    /\ PlayerCount = 2
    /\ \E p \in PlayerIds : requestNewGame(p).result.success

\* C13: whenever a capture obligation is set, capturingPiece holds a piece of
\* the color to move and that piece has a capture available.
C13_ObligationNamesCapturingPiece ==
    Pending =>
      /\ At(board, Bound).color = currentPlayer
      /\ getPieceCaptues(board, Bound[1], Bound[2]) # {}

\* the phases in the order a session goes through them
Rank(phase) ==
    CASE phase = "waiting" -> 0
      [] phase = "turn_selection" -> 1
      [] phase = "playing" -> 2
      [] phase = "finished" -> 3

\* the step is an approved new-game request
ResetStep ==
    \E p \in PlayerIds :
      /\ requestNewGame(p).result.success
      /\ Now' = requestNewGame(p).session

\* C14: the phase never goes back in the order waiting, turn_selection,
\* playing, finished, except by an approved new-game request; a join or a
\* leave never takes a session from playing or finished to turn_selection.
C14_PhaseOneDirectional ==
    [][Rank(gameState') >= Rank(gameState) \/ ResetStep]_vars

\* C15: a room never holds more than two players; a join while two players
\* are present, by one of them or by another connection, is refused with
\* 'Room is full' and leaves the session as it is.
C15_RoomHoldsTwo ==
    /\ PlayerCount <= 2
    /\ PlayerCount = 2 =>
         \A p \in Conn :
           addPlayer(p) = Outcome(Now, Result(FALSE, "Room is full"))

\* two players are present and a third connection is refused
C15_Witness ==
    /\ PlayerCount = 2
    /\ ~threw
    /\ connections < MaxConn
    /\ ~addPlayer(connections + 1).result.success
    /\ addPlayer(connections + 1).session.players = players

\* the colors of the players of a list
ColorsOf(ps) == {ps[i].color : i \in 1..Len(ps)}
\* the color a connection has in a list of players it is part of
ColorIn(ps, p) == ps[IndexOf(ps, p)].color

\* C16: whenever two players are present one is red and the other is black,
\* and the color of a connection does not change while it stays in the room.
C16_ColorsFixed ==
    [][/\ PlayerCount' = 2 => ColorsOf(players') = Colors
       /\ \A p \in PlayerIds \cap PlayerIds' :
            ColorIn(players', p) = ColorIn(players, p)
      ]_vars

\* C17: the join of the second player sets the phase to 'turn_selection' and
\* gives the choice of the turn order to the connection of the red player,
\* which is then a player of the room.
C17_SecondJoinGrantsRed ==
    PlayerCount = 1 =>
      \A p \in Conn \ PlayerIds :
        LET after == addPlayer(p).session
        IN /\ after.gameState = "turn_selection"
           /\ \E i \in 1..Len(after.players) :
                /\ after.players[i].id = after.turnOrderSelector
                /\ after.players[i].color = "red"

\* C18: removePlayer sets the phase to 'finished' exactly when no player
\* remains; when a player remains, board, currentPlayer, winner, capture
\* obligation and phase are as they were.
C18_DepartureFrame ==
    \A p \in PlayerIds :
      LET after == removePlayer(p).session
      IN /\ after.players = DeletePlayer(players, p)
         /\ IF Len(after.players) = 0
            THEN after.gameState = "finished"
            ELSE /\ after.gameState = gameState
                 /\ after.board = board
                 /\ after.currentPlayer = currentPlayer
                 /\ after.winner = winner
                 /\ after.mustCapture = mustCapture
                 /\ after.capturingPiece = capturingPiece

\* a player left in the middle of a capture sequence: one player is present,
\* the game is being played and the obligation stands
C18_Witness ==
    /\ PlayerCount = 1
    /\ gameState = "playing"
    /\ winner = NoColor
    /\ Pending
    /\ movesLeft < MaxPlies

\* the cells that hold a piece, of either color, and one cell that holds none
Sources == PiecesOf(board, "red") \cup PiecesOf(board, "black") \cup {<<0, 0>>}

\* C19: a makeMove or a selectTurnOrder that is rejected leaves every field
\* of the session as it was, for every player, every piece of the board and
\* an empty cell as source, every destination at MoveOffsets and every choice.
C19_RejectionKeepsSession ==
    \A p \in PlayerIds :
      /\ \A from \in Sources : \A to \in MoveTargets(from) :
           ~Move(p, from, to).result.success => Move(p, from, to).session = Now
      /\ \A choice \in Choices :
           ~selectTurnOrder(p, choice).result.success =>
             selectTurnOrder(p, choice).session = Now

\* a capture sequence is in progress, a move of another piece is rejected and
\* so is a choice of turn order
C19_Witness ==
    /\ Pending
    /\ \E p \in MoverIds, from \in OwnPieces \ {Bound} :
         \E to \in MoveTargets(from) :
           Move(p, from, to).result.reason =
             "Must continue capturing with the same piece"
    /\ \E p \in PlayerIds : ~selectTurnOrder(p, "self").result.success

\* rows and columns a request can name, those next to the board included
Wide == -1..BoardSize

\* C20: no command raises, whoever sends it and whatever cells it names: join,
\* makeMove, selectTurnOrder, requestNewGame and cancelNewGameRequest return a
\* result or do nothing.
C20_NoCommandRaises ==
    \A p \in Conn :
      /\ ~addPlayer(p).result.threw
      /\ \A choice \in Choices : ~selectTurnOrder(p, choice).result.threw
      /\ ~requestNewGame(p).result.threw
      /\ ~cancelNewGameRequest(p).result.threw
      /\ \A fromRow \in Wide, fromCol \in Wide, toRow \in Wide, toCol \in Wide :
           ~makeMove(fromRow, fromCol, toRow, toCol, p).result.threw

(***************************************************************************)
(* The board and the pieces                                                *)
(***************************************************************************)
\* C21: in every reachable state every cell of the board is empty or holds
\* one piece, red or black, regular or king, and every piece stands on a cell
\* whose row + col is odd.
C21_PiecesOnDarkSquares ==
    \A cell \in Cells :
      /\ At(board, cell) \in {Null} \cup {Piece(c, k) : c \in Colors, k \in BOOLEAN}
      /\ At(board, cell) # Null => (cell[1] + cell[2]) % 2 = 1

\* a capture was played: both colors are on the board and the mover stands
\* where it landed
C21_Witness ==
    /\ movesLeft < MaxPlies
    /\ Pending
    /\ At(board, Bound) # Null
    /\ PiecesOf(board, Other(currentPlayer)) # {}

\* the kings of the board
Kings(b) == {cell \in Cells : At(b, cell) # Null /\ At(b, cell).king}

\* C22: no accepted move turns a king into a regular piece: the king that
\* moves is a king of the same color on its destination, and every other king
\* is the same king after the move or was the piece captured.
C22_KingStaysKing ==
    \A p \in MoverIds : \A from \in OwnPieces : \A to \in MoveTargets(from) :
      LET out == Move(p, from, to)
      IN out.result.success =>
           /\ from \in Kings(board) =>
                At(out.session.board, to) = At(board, from)
           /\ \A cell \in Kings(board) \ {from} :
                At(out.session.board, cell) \in {At(board, cell), Null}

\* a red king has captured twice in a row and is still a king
C22_Witness ==
    /\ movesLeft = 0
    /\ At(board, <<1, 0>>) = Piece("red", TRUE)
    /\ PiecesOf(board, "black") = {}

\* the forward row direction of a regular piece, from the rules of the game
Forward(color) == IF color = "red" THEN 1 ELSE -1

\* the captures of the piece at from, told from the rule: over is next to
\* from on a diagonal the piece may take and holds an opposing piece, to is
\* the next cell of that diagonal, on the board and empty
LegalCaptures(b, from) ==
    {[from |-> from, to |-> to, captured |-> over] :
       <<over, to>> \in
         {pair \in StepTargets(from) \X JumpTargets(from) :
            /\ pair[2][1] - pair[1][1] = pair[1][1] - from[1]
            /\ pair[2][2] - pair[1][2] = pair[1][2] - from[2]
            /\ At(b, from).king \/ pair[1][1] - from[1] = Forward(At(b, from).color)
            /\ At(b, pair[1]) # Null
            /\ At(b, pair[1]).color # At(b, from).color
            /\ At(b, pair[2]) = Null}}

\* a lone red king at (5,5) and a black piece at (4,4)
LoneKing == Place({<<5, 5, "red", TRUE>>, <<4, 4, "black", FALSE>>})

\* C23: for every piece of the board getPieceCaptues returns exactly the
\* triples from, captured, to where captured is the next cell on a diagonal
\* the piece may take (the two forward ones for a regular piece, all four for
\* a king) and holds an opposing piece, and to is the cell after it, on the
\* board and empty; the lone red king at (5,5) with a black piece at (4,4)
\* has exactly the capture (5,5) to (3,3) over (4,4).
C23_CapturesOfPiece ==
    /\ \A from \in Cells :
         At(board, from) # Null =>
           getPieceCaptues(board, from[1], from[2]) = LegalCaptures(board, from)
    /\ getPieceCaptues(LoneKing, 5, 5) =
         {[from |-> <<5, 5>>, to |-> <<3, 3>>, captured |-> <<4, 4>>]}

\* a regular piece has an opposing piece behind it with an empty cell after
\* it, and a king has a capture
C23_Witness ==
    /\ \E from \in Cells :
         /\ At(board, from) # Null
         /\ ~At(board, from).king
         /\ \E over \in StepTargets(from) :
              /\ over[1] - from[1] # Forward(At(board, from).color)
              /\ At(board, over) # Null
              /\ At(board, over).color # At(board, from).color
              /\ InBounds(2 * over[1] - from[1], 2 * over[2] - from[2])
              /\ At(board, <<2 * over[1] - from[1], 2 * over[2] - from[2]>>) = Null
    /\ \E from \in Kings(board) : getPieceCaptues(board, from[1], from[2]) # {}

\* the step or the capture from a cell to a cell passes every check of the
\* rules other than the direction
Open(from, to) ==
    /\ At(board, to) = Null
    /\ Pending => from = Bound
    /\ to \in StepTargets(from) => getAvailableCaptures(board, currentPlayer) = {}
    /\ to \in JumpTargets(from) =>
         LET over == <<(from[1] + to[1]) \div 2, (from[2] + to[2]) \div 2>>
         IN At(board, over) # Null /\ At(board, over).color # currentPlayer

\* C24: an accepted step or capture of a regular piece goes forward, to a
\* higher row for red and to a lower row for black; a king is accepted along
\* each of the four diagonals whenever the move passes the other checks.
C24_RegularPiecesGoForward ==
    \A p \in MoverIds : \A from \in OwnPieces :
      \A to \in StepTargets(from) \cup JumpTargets(from) :
        /\ Move(p, from, to).result.success /\ ~At(board, from).king =>
             Sign(to[1] - from[1]) = Forward(currentPlayer)
        /\ At(board, from).king /\ Open(from, to) =>
             Move(p, from, to).result.success

\* the red king of the corner position has stepped back to row 0
C24_Witness ==
    /\ movesLeft < MaxPlies
    /\ \E col \in Coord : At(board, <<0, col>>) = Piece("red", TRUE)
    /\ At(board, <<1, 2>>) = Null

\* C25: an accepted move empties the source, puts the moved piece on the
\* destination and, when it captures, empties the jumped cell; every other
\* cell is as before, the mover keeps its number of pieces and the opponent
\* has one piece less after a capture and as many after a step.
C25_MoveFrame ==
    \A p \in MoverIds : \A from \in OwnPieces : \A to \in MoveTargets(from) :
      LET out == Move(p, from, to)
          after == out.session.board
          over == <<(from[1] + to[1]) \div 2, (from[2] + to[2]) \div 2>>
          jumped == IF out.result.captured THEN {over} ELSE {}
      IN out.result.success =>
           /\ At(after, from) = Null
           /\ At(after, to) # Null
           /\ At(after, to).color = At(board, from).color
           /\ At(board, from).king => At(after, to).king
           /\ out.result.captured => to \in JumpTargets(from)
           /\ \A cell \in jumped : At(after, cell) = Null
           /\ \A cell \in Cells \ ({from, to} \cup jumped) :
                At(after, cell) = At(board, cell)
           /\ countPieces(after, currentPlayer) = countPieces(board, currentPlayer)
           /\ countPieces(after, Other(currentPlayer)) =
                countPieces(board, Other(currentPlayer))
                  - (IF out.result.captured THEN 1 ELSE 0)

\* red has jumped from (2,5) over the black piece of (3,6) to (4,7)
C25_Witness ==
    /\ At(board, <<4, 7>>) = Piece("red", FALSE)
    /\ At(board, <<3, 6>>) = Null
    /\ At(board, <<2, 5>>) = Null
    /\ countPieces(board, "red") = 2
    /\ countPieces(board, "black") = 2

(***************************************************************************)
(* What the handlers send                                                  *)
(***************************************************************************)
\* the method returned a refusal
Refused(h) == ~h.result.success /\ ~h.result.threw

\* what the handlers send for every command of a player in this state
Commands ==
    UNION {{handleJoinRoom(p), handleRequestNewGame(p),
            handleCancelNewGameRequest(p), handleDisconnect(p)}
           \cup {handleSelectTurnOrder(p, choice) : choice \in Choices}
           \cup UNION {{handleMakeMove(p, from[1], from[2], to[1], to[2]) :
                          to \in MoveTargets(from)} : from \in Sources} :
           p \in PlayerIds}

\* C27: a rejected move and a rejected choice of turn order send 'move-error'
\* to the requesting connection and nothing to the room or to another
\* connection, and every event broadcast to the room follows a command that
\* changed the state of the session.
C27_BroadcastsFollowChanges ==
    /\ \A p \in PlayerIds :
         /\ \A from \in Sources : \A to \in MoveTargets(from) :
              LET h == handleMakeMove(p, from[1], from[2], to[1], to[2])
              IN Refused(h) =>
                   h.toRoom = <<>> /\ h.toSockets = {<<p, "move-error">>}
         /\ \A choice \in Choices :
              LET h == handleSelectTurnOrder(p, choice)
              IN Refused(h) =>
                   h.toRoom = <<>> /\ h.toSockets = {<<p, "move-error">>}
    /\ \A h \in Commands : h.toRoom # <<>> => h.session # Now

(***************************************************************************)
(* The registry of rooms                                                   *)
(***************************************************************************)
\* C28: the room is out of the registry exactly when players had joined it
\* and all of them have departed: the departure of the last player removes
\* it, and no departure removes a room that still has a player.
C28_RoomLivesWithPlayers ==
    registered <=> (PlayerCount > 0 \/ connections = 0)

\* two players had joined, both have left and the room is gone
C28_Witness ==
    /\ ~registered
    /\ connections >= 2
    /\ PlayerCount = 0

\* C29: the sweep removes the room only when no join and no accepted move
\* happened in it during the last maxAgeHours hours.
C29_SweepAfterInactivity ==
    [][(registered /\ ~registered' /\ players' = players)
         => sinceActivity >= maxAgeHours]_vars

\* C30: every destination sent as 'possible-moves' for a piece of the player
\* to move is accepted by makeMove from that piece in the same state.
C30_PossibleMovesAreAccepted ==
    \A p \in MoverIds : \A from \in OwnPieces :
      \A to \in handleGetPossibleMoves(p, from[1], from[2]) :
        Move(p, from, to).result.success

(***************************************************************************)
(* The phases of the session                                               *)
(***************************************************************************)
\* C31: makeMove is accepted only in the phase 'playing': in 'waiting',
\* 'turn_selection' and 'finished' every move request of a player is
\* rejected and leaves the board and currentPlayer as they were.
C31_MovesOnlyWhilePlaying ==
    gameState # "playing" =>
      \A p \in PlayerIds : \A from \in Sources : \A to \in MoveTargets(from) :
        /\ ~Move(p, from, to).result.success
        /\ Move(p, from, to).session.board = board
        /\ Move(p, from, to).session.currentPlayer = currentPlayer

\* C33: in the phase 'playing' there is no winner, and a winner is set only
\* while the phase is 'finished'.
C33_WinnerOnlyWhenFinished ==
    /\ gameState = "playing" => winner = NoColor
    /\ winner # NoColor => gameState = "finished"

\* C34: in the phase 'playing' with both players present, the player whose
\* turn it is has a step or a jump that makeMove accepts.
C34_MoverCanMove ==
    gameState = "playing" /\ PlayerCount = 2 =>
      \E p \in MoverIds : \E from \in OwnPieces :
        \E to \in StepTargets(from) \cup JumpTargets(from) :
          Move(p, from, to).result.success

\* C35: while the server runs, in the phase 'turn_selection' two players are
\* present and the chooser of the turn order is one of them.
C35_ChooserIsPresent ==
    ~threw /\ gameState = "turn_selection" =>
      PlayerCount = 2 /\ turnOrderSelector \in PlayerIds

\* C36: every step that takes the session into the phase 'playing' leaves
\* the starting position on the board, no winner and no capture obligation.
C36_GamesStartFromInitialBoard ==
    [][(gameState # "playing" /\ gameState' = "playing") =>
         /\ IsInitialBoard(board')
         /\ winner' = NoColor
         /\ ~mustCapture'
         /\ capturingPiece' = NoCell]_vars

\* C39: once a game is won no move of a player is accepted, and the board,
\* the winner and currentPlayer stay as they are in every step other than an
\* approved new-game request.
C39_WonGameIsFrozen ==
    [][winner # NoColor =>
         /\ \A p \in PlayerIds : \A from \in Sources : \A to \in MoveTargets(from) :
              ~Move(p, from, to).result.success
         /\ ~ResetStep =>
              board' = board /\ winner' = winner /\ currentPlayer' = currentPlayer]_vars

\* C40: no regular red piece stands on row 7 and no regular black piece on
\* row 0: the move that lands a piece on its farthest row crowns it.
C40_FarRowHoldsKings ==
    \A cell \in Cells :
      At(board, cell) # Null /\ cell[1] = FarRow(At(board, cell).color) =>
        At(board, cell).king

\* a regular piece has just reached its farthest row and stands there as a
\* king
C40_Witness ==
    /\ movesLeft < MaxPlies
    /\ \E cell \in Cells :
         /\ At(board, cell) # Null
         /\ cell[1] = FarRow(At(board, cell).color)
         /\ At(board, cell).king
    /\ \E col \in Coord : At(board, <<BoardSize - 1, col>>) = Piece("red", TRUE)

(***************************************************************************)
(* Several rooms                                                           *)
(***************************************************************************)
\* C32: creating a room leaves the session of every existing room as it
\* is.
C32_CreateKeepsRooms ==
    [][creations' # creations =>
         \A c \in DOMAIN games : c \in DOMAIN games' /\ games'[c] = games[c]]_vars

\* C37: in every room the pending new-game requests are requests of
\* connections that are players of that room.
C37_RequestsOfPlayers ==
    \A c \in DOMAIN games : games[c].newGameRequests \subseteq IdsOf(games[c])

\* C38: a connection that has disconnected is a player of no room, and every
\* room that has players has a player whose connection is live.
C38_DisconnectLeavesEveryRoom ==
    /\ \A conn \in Conn : ~sockets[conn].live =>
         \A c \in DOMAIN games : conn \notin IdsOf(games[c])
    /\ \A c \in DOMAIN games :
         IdsOf(games[c]) # {} => \E conn \in IdsOf(games[c]) : sockets[conn].live

====
